---- MODULE Spec2Model ----
(***************************************************************************)
(* A model of the Markdown resume renderer (convert_resume.py): the inline  *)
(* formatter insert_markdown_text and the line-oriented renderer            *)
(* convert_md_to_docx with its helpers.  Text is held as TLA+ strings; a    *)
(* character of a string s is SubSeq(s, k, k).  The tailoring pipeline      *)
(* (tailor_and_convert.py, main) is modelled by its steps and the backup    *)
(* folder it writes to.                                                     *)
(***************************************************************************)
EXTENDS Integers, Sequences, FiniteSets, TLC

\* ------------------------------------------------------------------ bounds
\* Longest line given to the inline formatter under SpecFormat.
MaxLen == 6
\* Most lines of an input file under Spec.
MaxLines == 4
\* Most runs of the tailoring pipeline under SpecPipeline.
MaxRuns == 3

\* ------------------------------------------------------- string helpers
Char(s, k) == SubSeq(s, k, k)

\* s[from:] for a 1-based from.
Tail_(s, from) == SubSeq(s, from, Len(s))

Min(S) == CHOOSE x \in S : \A y \in S : x <= y

\* The characters str.strip() and the regex class \s remove, as far as the
\* inputs of the model contain them.
Whitespace == {" ", "\t"}

\* str.lstrip() and str.rstrip()
RECURSIVE LStrip(_)
LStrip(s) ==
    IF s # "" /\ Char(s, 1) \in Whitespace THEN LStrip(Tail_(s, 2)) ELSE s

RECURSIVE RStrip(_)
RStrip(s) ==
    IF s # "" /\ Char(s, Len(s)) \in Whitespace THEN RStrip(SubSeq(s, 1, Len(s) - 1)) ELSE s

\* str.strip()
Strip(s) == RStrip(LStrip(s))

\* str.startswith(prefix)
StartsWith(s, prefix) ==
    Len(s) >= Len(prefix) /\ SubSeq(s, 1, Len(prefix)) = prefix

Lowers == "abcdefghijklmnopqrstuvwxyz"
Uppers == "ABCDEFGHIJKLMNOPQRSTUVWXYZ"

\* The upper-case letter of each lower-case letter.
UpperOf == [c \in {Char(Lowers, k) : k \in 1..26} |->
               Char(Uppers, CHOOSE k \in 1..26 : Char(Lowers, k) = c)]

UpperChar(c) == IF c \in DOMAIN UpperOf THEN UpperOf[c] ELSE c

\* str.upper()
RECURSIVE Upper(_)
Upper(s) == IF s = "" THEN "" ELSE UpperChar(Char(s, 1)) \o Upper(Tail_(s, 2))

\* ---------------------------------------------------- insert_markdown_text
\* A run added to a paragraph: kind is "plain", "bold", "italic" or "link";
\* url is "" except for a link.
Run(kind, text, url) == [kind |-> kind, text |-> text, url |-> url]

NoMatch == [found |-> FALSE, start |-> 0, end |-> 0, kind |-> "none", text |-> "", url |-> ""]

\* A variant for \*\*(.*?)\*\*, which also matches an empty content.
BoldAtMaybeEmpty(s, p) ==
    LET close == {e \in (p + 2)..(Len(s) - 1) : SubSeq(s, e, e + 1) = "**"}
    IN  IF p + 1 <= Len(s) /\ SubSeq(s, p, p + 1) = "**" /\ close # {}
        THEN [found |-> TRUE, start |-> p, end |-> Min(close) + 2, kind |-> "bold",
              text |-> SubSeq(s, p + 2, Min(close) - 1), url |-> ""]
        ELSE NoMatch

\* \*\*(?P<bold>.+?)\*\* tried at position p: the content is the shortest
\* non-empty text followed by "**".
BoldAt(s, p) ==
    LET close == {e \in (p + 3)..(Len(s) - 1) : SubSeq(s, e, e + 1) = "**"}
    IN  IF p + 1 <= Len(s) /\ SubSeq(s, p, p + 1) = "**" /\ close # {}
        THEN [found |-> TRUE, start |-> p, end |-> Min(close) + 2, kind |-> "bold",
              text |-> SubSeq(s, p + 2, Min(close) - 1), url |-> ""]
        ELSE NoMatch

\* \*(?P<italic>.+?)\* tried at position p.
ItalicAt(s, p) ==
    LET close == {e \in (p + 2)..Len(s) : Char(s, e) = "*"}
    IN  IF Char(s, p) = "*" /\ close # {}
        THEN [found |-> TRUE, start |-> p, end |-> Min(close) + 1, kind |-> "italic",
              text |-> SubSeq(s, p + 1, Min(close) - 1), url |-> ""]
        ELSE NoMatch

\* \[(?P<link_text>[^\]]+)\]\((?P<link_url>[^)]+)\) tried at position p: the
\* text runs to the first "]", the target from the "(" after it to the first ")".
LinkAt(s, p) ==
    LET rb == {e \in (p + 1)..Len(s) : Char(s, e) = "]"}
        e  == IF rb = {} THEN 0 ELSE Min(rb)
        rp == {f \in (e + 2)..Len(s) : Char(s, f) = ")"}
        f  == IF rp = {} THEN 0 ELSE Min(rp)
    IN  IF /\ Char(s, p) = "[" /\ rb # {} /\ e >= p + 2
           /\ e + 1 <= Len(s) /\ Char(s, e + 1) = "(" /\ rp # {} /\ f >= e + 3
        THEN [found |-> TRUE, start |-> p, end |-> f + 1, kind |-> "link",
              text |-> SubSeq(s, p + 1, e - 1), url |-> SubSeq(s, e + 2, f - 1)]
        ELSE NoMatch

\* The alternation at position p: bold, then italic, then link.
MatchAt(s, p) ==
    IF BoldAt(s, p).found THEN BoldAt(s, p)
    ELSE IF ItalicAt(s, p).found THEN ItalicAt(s, p)
    ELSE LinkAt(s, p)

\* The next match pattern.finditer yields when scanning resumes at from
\* (1-based): the leftmost position at which the pattern matches.  Every
\* alternative starts with "*" or "[".
NextMatch(s, from) ==
    LET at == {p \in from..Len(s) : Char(s, p) \in {"*", "["} /\ MatchAt(s, p).found}
    IN  IF at = {} THEN NoMatch ELSE MatchAt(s, Min(at))

\* The runs one iteration of the loop adds for match m when the text before
\* position pos (1-based, first unconsumed character) is already emitted.
MatchRuns(s, pos, m) ==
    (IF m.start > pos THEN <<Run("plain", SubSeq(s, pos, m.start - 1), "")>> ELSE <<>>)
    \o (IF m.kind = "bold" /\ m.text # "" THEN <<Run("bold", m.text, "")>>
        ELSE IF m.kind = "italic" /\ m.text # "" THEN <<Run("italic", m.text, "")>>
        ELSE IF m.kind = "link" /\ m.text # "" THEN <<Run("link", m.text, m.url)>>
        ELSE <<>>)

\* The run added after the loop for the text left at pos.
TrailingRuns(s, pos) ==
    IF pos <= Len(s) THEN <<Run("plain", Tail_(s, pos), "")>> ELSE <<>>

RECURSIVE FormatFrom(_, _)
FormatFrom(s, pos) ==
    LET m == NextMatch(s, pos)
    IN  IF m.found THEN MatchRuns(s, pos, m) \o FormatFrom(s, m.end)
        ELSE TrailingRuns(s, pos)

\* The runs insert_markdown_text adds to an empty paragraph.
insert_markdown_text(markdown_text) == FormatFrom(markdown_text, 1)

insert_formatted_text(text) == insert_markdown_text(text)

\* ------------------------------------------------------------ block nodes
\* The body of the document is a sequence of nodes.  A paragraph records its
\* style, alignment, runs and keep_with_next; a table its grid of cells; a
\* horizontal line nothing.  The fields level (heading level, 0 for no
\* heading), src (index of the line the node was made from) and blk (ordinal
\* of the job-block flush that made it, 0 for none) record where a node came
\* from; the program does not read them.
Paragraph(style, level, center, text, src) ==
    [kind |-> "paragraph", style |-> style, level |-> level, center |-> center,
     runs |-> insert_formatted_text(text), keep |-> FALSE, src |-> src, blk |-> 0]

\* add_horizontal_line
add_horizontal_line(d, src) == Append(d, [kind |-> "rule", src |-> src])

\* The heading pattern ^(#{1,6})\s+(.*)$ on a stripped line: the number of
\* leading '#' when it is 1..6 and whitespace follows, else 0.
HeadingLevel(line) ==
    LET other == {k \in 1..Len(line) : Char(line, k) # "#"}
        h     == IF other = {} THEN Len(line) ELSE Min(other) - 1
    IN  IF h >= 1 /\ h <= 6 /\ h < Len(line) /\ Char(line, h + 1) \in Whitespace
        THEN h ELSE 0

HeadingStyle(level) ==
    IF level = 1 THEN "Heading1"
    ELSE IF level = 2 THEN "Heading2"
    ELSE IF level = 3 THEN "Heading3"
    ELSE "Normal"

\* try_process_heading: the document after the call and the returned tuple.
try_process_heading(d, line, header_block, src) ==
    LET level == HeadingLevel(line)
        text  == Strip(Tail_(line, level + 1))
    IN  IF level > 0
        THEN [doc |-> Append(d, Paragraph(HeadingStyle(level), level, header_block, text, src)),
              is_heading |-> TRUE, level |-> level, text |-> text]
        ELSE [doc |-> d, is_heading |-> FALSE, level |-> 0, text |-> ""]

\* The paragraphs add_job_block_to_doc makes of block[k..], a block being the
\* indices of its lines in ls.
RECURSIVE JobParagraphs(_, _, _, _)
JobParagraphs(ls, block, k, blk) ==
    IF k > Len(block) THEN <<>>
    ELSE LET line == Strip(ls[block[k]])
             p == IF StartsWith(line, "- ")
                  THEN Paragraph("List Bullet", 0, FALSE, Strip(Tail_(line, 3)), block[k])
                  ELSE Paragraph("Normal", 0, FALSE, line, block[k])
         IN  IF line = "" THEN JobParagraphs(ls, block, k + 1, blk)
             ELSE <<[p EXCEPT !.blk = blk]>> \o JobParagraphs(ls, block, k + 1, blk)

\* A variant that marks every paragraph, the last one too.
KeepAll(ps) ==
    [k \in 1..Len(ps) |-> [ps[k] EXCEPT !.keep = TRUE]]

\* paragraphs[:-1] get keep_with_next.
KeepButLast(ps) ==
    [k \in 1..Len(ps) |-> IF k < Len(ps) THEN [ps[k] EXCEPT !.keep = TRUE] ELSE ps[k]]

\* add_job_block_to_doc
add_job_block_to_doc(d, ls, block, blk) ==
    d \o KeepButLast(JobParagraphs(ls, block, 1, blk))

\* str.strip("|")
RECURSIVE StripPipes(_)
StripPipes(s) ==
    IF s # "" /\ Char(s, 1) = "|" THEN StripPipes(Tail_(s, 2))
    ELSE IF s # "" /\ Char(s, Len(s)) = "|" THEN StripPipes(SubSeq(s, 1, Len(s) - 1))
    ELSE s

\* str.split("|")
RECURSIVE SplitPipes(_)
SplitPipes(s) ==
    LET bars == {k \in 1..Len(s) : Char(s, k) = "|"}
    IN  IF bars = {} THEN <<s>>
        ELSE <<SubSeq(s, 1, Min(bars) - 1)>> \o SplitPipes(Tail_(s, Min(bars) + 1))

\* [cell.strip() for cell in line.strip("|").split("|")]
Cells(line) ==
    LET parts == SplitPipes(StripPipes(line))
    IN  [k \in 1..Len(parts) |-> Strip(parts[k])]

EmptyCell == [runs |-> <<>>, fill |-> "none"]

\* One row of the table after its cells 1..upto are written from texts.
FilledRow(cols, texts, upto, fill) ==
    [j \in 1..cols |-> IF j <= upto THEN [runs |-> insert_formatted_text(texts[j]), fill |-> fill]
                       ELSE EmptyCell]

\* The data rows after the loop over data_lines: row k is written from line
\* k + 2 of the run; writing cell j > cols raises IndexError, which leaves
\* the rows after it untouched.  bad is the first row that raises, 0 for none.
DataRows(ls, tl, cols, bad) ==
    [k \in 1..(Len(tl) - 2) |->
        LET cells == Cells(ls[tl[k + 2]])
        IN  IF bad # 0 /\ k > bad THEN [j \in 1..cols |-> EmptyCell]
            ELSE FilledRow(cols, cells, IF Len(cells) < cols THEN Len(cells) ELSE cols, "FFFACD")]

\* add_table_to_doc on the run tl (indices in ls): the document after the
\* call and whether the call returned (ok) or raised IndexError.
add_table_to_doc(d, ls, tl) ==
    IF Len(tl) < 2 THEN [doc |-> d, ok |-> TRUE]
    ELSE LET header_cells_text == Cells(ls[tl[1]])
             cols == Len(header_cells_text)
             over == {k \in 1..(Len(tl) - 2) : Len(Cells(ls[tl[k + 2]])) > cols}
             bad  == IF over = {} THEN 0 ELSE Min(over)
             table == [kind |-> "table", cols |-> cols, src |-> tl[1],
                       rows |-> <<FilledRow(cols, header_cells_text, cols, "C6EFCE")>>
                                \o DataRows(ls, tl, cols, bad)]
         IN  [doc |-> Append(d, table), ok |-> bad = 0]

\* ------------------------------------------------------------------ state
\* convert_md_to_docx: headerOk is whether settings/header.txt can be read;
\* lines, i, doc, in_employment, current_job_block and table_lines are the
\* function's locals (lines starts as the lines of the file, line 270; i is
\* 1-based; the two accumulators hold the indices of their lines in lines);
\* pc is the position in the function.  jflushed and tflushed record the calls of
\* add_job_block_to_doc and add_table_to_doc.
\* insert_markdown_text run step by step: markdown_text, pos, runs, fpc.
\* tailor_and_convert.py, main: resume is the base name of args.resume,
\* invocation the ordinal of the run of main, ppc the position in main, backups the paths
\* that exist in the backup folder, backup_path the local of that name,
\* output_md the state of the file args.output_md names, exit_code the exit
\* status of the process (-1 while it runs); steps records the steps the
\* invocation has executed, each with what its environment answered.
VARIABLES headerOk, lines, i, doc, in_employment, current_job_block,
          table_lines, pc, jflushed, tflushed,
          markdown_text, pos, runs, fpc,
          resume, invocation, ppc, backups, backup_path, output_md, exit_code, steps

rvars == <<headerOk, lines, i, doc, in_employment, current_job_block,
           table_lines, pc, jflushed, tflushed>>
fvars == <<markdown_text, pos, runs, fpc>>
pvars == <<resume, invocation, ppc, backups, backup_path, output_md, exit_code, steps>>
vars == <<headerOk, lines, i, doc, in_employment, current_job_block,
          table_lines, pc, jflushed, tflushed, markdown_text, pos, runs, fpc,
          resume, invocation, ppc, backups, backup_path, output_md, exit_code, steps>>

\* ----------------------------------------------------------------- inputs
\* The lines an input file is made of.
LineSet == {"", "---", "## Employment History", "# EMPLOYMENT HISTORY", "## x",
            "| a | b |", "| a |", "- x", " x"}

RECURSIVE SeqsUpTo(_, _)
SeqsUpTo(S, n) ==
    IF n = 0 THEN {<<>>}
    ELSE LET shorter == SeqsUpTo(S, n - 1)
         IN  shorter \cup {Append(q, x) : q \in {r \in shorter : Len(r) = n - 1}, x \in S}

\* The code fence markers of lines 271 and 273.  The module writes the
\* backquote as "~": SANY does not read a backquote in a module that also
\* uses the prime.
FenceOpen == "~~~markdown"
FenceClose == "~~~"

\* The input files: fewer than MaxLines lines (the header block runs to the
\* first rule among them, if any), at most MaxLines lines after a rule that
\* ends an empty header block, and the short ones wrapped in a code fence.
Inputs ==
    SeqsUpTo(LineSet, MaxLines - 1)
    \cup {<<"---">> \o q : q \in SeqsUpTo(LineSet, MaxLines)}
    \cup {<<FenceOpen>> \o q \o <<FenceClose>> : q \in SeqsUpTo(LineSet, MaxLines - 3)}

\* The characters a line under SpecFormat is made of.
Alphabet == {"*", "a", "[", "]", "(", ")"}

RECURSIVE StringsUpTo(_)
StringsUpTo(n) ==
    IF n = 0 THEN {""}
    ELSE LET shorter == StringsUpTo(n - 1)
         IN  shorter \cup {q \o c : q \in {r \in shorter : Len(r) = n - 1}, c \in Alphabet}

\* -------------------------------------------------------- convert_md_to_docx
\* The code fence markers are removed from the first and last line.
StripFences(ls) ==
    LET a == IF ls # <<>> /\ Strip(ls[1]) = FenceOpen THEN Tail(ls) ELSE ls
    IN  IF a # <<>> /\ Strip(a[Len(a)]) = FenceClose THEN SubSeq(a, 1, Len(a) - 1) ELSE a

\* "\n".join(lines).splitlines(): one empty last line is lost.
JoinSplit(ls) ==
    IF ls # <<>> /\ ls[Len(ls)] = "" THEN SubSeq(ls, 1, Len(ls) - 1) ELSE ls

IsRule(line) == Strip(line) = "---"

IsTableRow(line) == StartsWith(Strip(line), "|")

\* The index of the first horizontal rule at or after from, Len + 1 for none.
FirstRule(ls, from) ==
    LET at == {k \in from..Len(ls) : IsRule(ls[k])}
    IN  IF at = {} THEN Len(ls) + 1 ELSE Min(at)

\* The index of the first line at or after from that is no rule.
FirstNonRule(ls, from) ==
    LET at == {k \in from..Len(ls) : ~IsRule(ls[k])}
    IN  IF at = {} THEN Len(ls) + 1 ELSE Min(at)

RInit ==
    /\ lines \in Inputs
    /\ headerOk \in BOOLEAN
    /\ ~headerOk => Len(lines) <= 1
    /\ i = 1
    /\ doc = <<>>
    /\ in_employment = FALSE
    /\ current_job_block = <<>>
    /\ table_lines = <<>>
    /\ pc = "start"
    /\ jflushed = <<>>
    /\ tflushed = <<>>

FIdle ==
    /\ markdown_text = ""
    /\ pos = 1
    /\ runs = <<>>
    /\ fpc = "idle"

\* No invocation of the pipeline.
PIdle ==
    /\ resume = ""
    /\ invocation = 0
    /\ ppc = "idle"
    /\ backups = {}
    /\ backup_path = ""
    /\ output_md = "absent"
    /\ exit_code = -1
    /\ steps = <<>>

Init == RInit /\ FIdle /\ PIdle

\* Lines 266-319: read the file, drop the fence, read the header text (the
\* process exits when it cannot be read), split into lines.
LoadInput ==
    /\ UNCHANGED <<fvars, pvars>>
    /\ pc = "start"
    /\ IF headerOk
       THEN /\ lines' = JoinSplit(StripFences(lines))
            /\ pc' = "header_block"
       ELSE /\ lines' = lines
            /\ pc' = "exit"
    /\ UNCHANGED <<headerOk, i, doc, in_employment, current_job_block,
                   table_lines, jflushed, tflushed>>

\* A variant that gives a line with a bullet marker a list item, as the main
\* loop does.
RECURSIVE HeaderBlockNodesWithBullets(_, _, _, _)
HeaderBlockNodesWithBullets(d, ls, k, upto) ==
    IF k > upto THEN d
    ELSE LET stripped == Strip(ls[k])
             r == try_process_heading(d, stripped, TRUE, k)
         IN  IF stripped = "" THEN HeaderBlockNodesWithBullets(d, ls, k + 1, upto)
             ELSE IF r.is_heading THEN HeaderBlockNodesWithBullets(r.doc, ls, k + 1, upto)
             ELSE IF StartsWith(stripped, "- ")
             THEN HeaderBlockNodesWithBullets(
                      Append(d, Paragraph("List Bullet", 0, TRUE, Strip(Tail_(stripped, 3)), k)),
                      ls, k + 1, upto)
             ELSE HeaderBlockNodesWithBullets(
                      Append(d, Paragraph("Normal", 0, TRUE, stripped, k)), ls, k + 1, upto)

\* The nodes of the header block lines k..upto.
RECURSIVE HeaderBlockNodes(_, _, _, _)
HeaderBlockNodes(d, ls, k, upto) ==
    IF k > upto THEN d
    ELSE LET stripped == Strip(ls[k])
             r == try_process_heading(d, stripped, TRUE, k)
         IN  IF stripped = "" THEN HeaderBlockNodes(d, ls, k + 1, upto)
             ELSE IF r.is_heading THEN HeaderBlockNodes(r.doc, ls, k + 1, upto)
             ELSE HeaderBlockNodes(Append(d, Paragraph("Normal", 0, TRUE, stripped, k)),
                                   ls, k + 1, upto)

\* Lines 322-337: the lines before the first horizontal rule.
HeaderBlock ==
    /\ UNCHANGED <<fvars, pvars>>
    /\ pc = "header_block"
    /\ i' = FirstRule(lines, 1)
    /\ doc' = HeaderBlockNodes(doc, lines, 1, FirstRule(lines, 1) - 1)
    /\ pc' = "header_rules"
    /\ UNCHANGED <<headerOk, lines, in_employment, current_job_block,
                   table_lines, jflushed, tflushed>>

RECURSIVE Rules(_, _, _)
Rules(d, k, upto) ==
    IF k > upto THEN d ELSE Rules(add_horizontal_line(d, k), k + 1, upto)

\* Lines 339-347: the rules that end the header block; the locals of the
\* main loop are initialised.
HeaderRules ==
    /\ UNCHANGED <<fvars, pvars>>
    /\ pc = "header_rules"
    /\ i' = FirstNonRule(lines, i)
    /\ doc' = Rules(doc, i, FirstNonRule(lines, i) - 1)
    /\ in_employment' = FALSE
    /\ current_job_block' = <<>>
    /\ table_lines' = <<>>
    /\ pc' = "main"
    /\ UNCHANGED <<headerOk, lines, jflushed, tflushed>>

\* A variant that writes the job block out and leaves it in the accumulator.
FlushJobKeepsBlock(d, cond) ==
    IF cond
    THEN [doc |-> add_job_block_to_doc(d, lines, current_job_block, Len(jflushed) + 1),
          block |-> current_job_block, flushed |-> Append(jflushed, current_job_block)]
    ELSE [doc |-> d, block |-> current_job_block, flushed |-> jflushed]

\* The job block is flushed if one is pending: the document after d, the
\* accumulator and the record of flushes.
FlushJob(d, cond) ==
    IF cond
    THEN [doc |-> add_job_block_to_doc(d, lines, current_job_block, Len(jflushed) + 1),
          block |-> <<>>, flushed |-> Append(jflushed, current_job_block)]
    ELSE [doc |-> d, block |-> current_job_block, flushed |-> jflushed]

\* Lines 353-360: a horizontal rule.
RuleLine ==
    /\ UNCHANGED <<fvars, pvars>>
    /\ pc = "main" /\ i <= Len(lines)
    /\ IsRule(lines[i])
    /\ LET f == FlushJob(doc, in_employment /\ current_job_block # <<>>)
       IN  /\ doc' = add_horizontal_line(f.doc, i)
           /\ current_job_block' = f.block
           /\ jflushed' = f.flushed
    /\ i' = i + 1
    /\ UNCHANGED <<headerOk, lines, in_employment, table_lines, pc, tflushed>>

\* A variant that looks at the text of the heading and not at its level.
IsEmploymentHeadingAnyLevel(level, heading_text) ==
    Upper(heading_text) = "EMPLOYMENT HISTORY"

\* The employment state a heading sets (line 370).
IsEmploymentHeading(level, heading_text) ==
    level = 2 /\ Upper(heading_text) = "EMPLOYMENT HISTORY"

\* Lines 362-375: a heading.
HeadingLine ==
    /\ UNCHANGED <<fvars, pvars>>
    /\ pc = "main" /\ i <= Len(lines)
    /\ ~IsRule(lines[i])
    /\ LET r == try_process_heading(doc, Strip(lines[i]), FALSE, i)
           f == FlushJob(r.doc, in_employment /\ current_job_block # <<>>)
       IN  /\ r.is_heading
           /\ doc' = f.doc
           /\ current_job_block' = f.block
           /\ jflushed' = f.flushed
           /\ in_employment' = IsEmploymentHeading(r.level, r.text)
    /\ i' = i + 1
    /\ UNCHANGED <<headerOk, lines, table_lines, pc, tflushed>>

\* A variant without the end-of-input branch.
TableFlushViaLookahead(ls, k) ==
    IF k < Len(ls) /\ ~IsTableRow(ls[k + 1]) THEN "lookahead" ELSE "none"

\* Whether the table is flushed at line k, and by which branch (lines 381-386).
TableFlushVia(ls, k) ==
    IF k < Len(ls) /\ ~IsTableRow(ls[k + 1]) THEN "lookahead"
    ELSE IF k = Len(ls) THEN "eof"
    ELSE "none"

\* Lines 377-388: a table row.
TableLine ==
    /\ UNCHANGED <<fvars, pvars>>
    /\ pc = "main" /\ i <= Len(lines)
    /\ ~IsRule(lines[i])
    /\ HeadingLevel(Strip(lines[i])) = 0
    /\ IsTableRow(lines[i])
    /\ LET tl  == Append(table_lines, i)
           via == TableFlushVia(lines, i)
           t   == add_table_to_doc(doc, lines, tl)
       IN  IF via = "none"
           THEN /\ table_lines' = tl
                /\ i' = i + 1
                /\ UNCHANGED <<doc, tflushed, pc>>
           ELSE /\ doc' = t.doc
                /\ tflushed' = Append(tflushed, [first |-> tl[1], last |-> i, via |-> via])
                /\ IF t.ok
                   THEN table_lines' = <<>> /\ i' = i + 1 /\ pc' = pc
                   ELSE table_lines' = tl /\ i' = i /\ pc' = "failed"
    /\ UNCHANGED <<headerOk, lines, in_employment, current_job_block, jflushed>>

\* Lines 390-400: any other line.
TextLine ==
    /\ UNCHANGED <<fvars, pvars>>
    /\ pc = "main" /\ i <= Len(lines)
    /\ ~IsRule(lines[i])
    /\ HeadingLevel(Strip(lines[i])) = 0
    /\ ~IsTableRow(lines[i])
    /\ IF in_employment
       THEN /\ current_job_block' = Append(current_job_block, i)
            /\ doc' = doc
       ELSE /\ current_job_block' = current_job_block
            /\ doc' = Append(doc,
                   IF StartsWith(Strip(lines[i]), "- ")
                   THEN Paragraph("List Bullet", 0, FALSE, Strip(Tail_(Strip(lines[i]), 3)), i)
                   ELSE Paragraph("Normal", 0, FALSE, lines[i], i))
    /\ i' = i + 1
    /\ UNCHANGED <<headerOk, lines, in_employment, table_lines, pc, jflushed, tflushed>>

\* Lines 402-408: what is left in the accumulators is flushed and the
\* document is saved.
Finish ==
    /\ UNCHANGED <<fvars, pvars>>
    /\ pc = "main" /\ i > Len(lines)
    /\ LET f == FlushJob(doc, current_job_block # <<>>)
           t == IF table_lines # <<>> THEN add_table_to_doc(f.doc, lines, table_lines)
                ELSE [doc |-> f.doc, ok |-> TRUE]
       IN  /\ doc' = t.doc
           /\ current_job_block' = f.block
           /\ jflushed' = f.flushed
           /\ tflushed' = IF table_lines # <<>>
                          THEN Append(tflushed, [first |-> table_lines[1],
                                                 last |-> table_lines[Len(table_lines)],
                                                 via |-> "post"])
                          ELSE tflushed
           /\ table_lines' = IF t.ok THEN <<>> ELSE table_lines
           /\ pc' = IF t.ok THEN "done" ELSE "failed"
    /\ UNCHANGED <<headerOk, lines, i, in_employment>>

Next ==
    \/ LoadInput
    \/ HeaderBlock
    \/ HeaderRules
    \/ RuleLine
    \/ HeadingLine
    \/ TableLine
    \/ TextLine
    \/ Finish

Spec == Init /\ [][Next]_vars

\* ------------------------------------------- insert_markdown_text, by steps
RIdle ==
    /\ headerOk = TRUE
    /\ lines = <<>>
    /\ i = 1
    /\ doc = <<>>
    /\ in_employment = FALSE
    /\ current_job_block = <<>>
    /\ table_lines = <<>>
    /\ pc = "idle"
    /\ jflushed = <<>>
    /\ tflushed = <<>>

InitFormat ==
    /\ RIdle
    /\ PIdle
    /\ markdown_text \in StringsUpTo(MaxLen)
    /\ pos = 1
    /\ runs = <<>>
    /\ fpc = "loop"

\* Lines 92-107: one iteration of the loop over pattern.finditer.
FormatMatch ==
    /\ UNCHANGED <<rvars, pvars>>
    /\ fpc = "loop"
    /\ LET m == NextMatch(markdown_text, pos)
       IN  /\ m.found
           /\ runs' = runs \o MatchRuns(markdown_text, pos, m)
           /\ pos' = m.end
    /\ UNCHANGED <<markdown_text, fpc>>

\* Lines 108-110: the text after the last match.
FormatRest ==
    /\ UNCHANGED <<rvars, pvars>>
    /\ fpc = "loop"
    /\ ~NextMatch(markdown_text, pos).found
    /\ runs' = runs \o TrailingRuns(markdown_text, pos)
    /\ fpc' = "done"
    /\ UNCHANGED <<markdown_text, pos>>

NextFormat ==
    \/ FormatMatch
    \/ FormatRest

SpecFormat == InitFormat /\ [][NextFormat]_vars

\* ------------------------------------------------- tailor_and_convert.py
\* str.split(".")
RECURSIVE SplitDots(_)
SplitDots(s) ==
    LET dots == {k \in 1..Len(s) : Char(s, k) = "."}
    IN  IF dots = {} THEN <<s>>
        ELSE <<SubSeq(s, 1, Min(dots) - 1)>> \o SplitDots(Tail_(s, Min(dots) + 1))

\* ".".join(parts)
RECURSIVE JoinDots(_)
JoinDots(parts) ==
    IF parts = <<>> THEN ""
    ELSE IF Len(parts) = 1 THEN parts[1]
    ELSE parts[1] \o "." \o JoinDots(Tail(parts))

\* os.path.join
PathJoin(folder, name) == folder \o "/" \o name

backup_folder == PathJoin("markdown_resumes", "backups")

\* Lines 245-257: the name of the backup file; exists is whether the path of
\* the plain ".bak" name exists.
BackupFilename(original_filename, exists, date_str, random_letters) ==
    LET parts == SplitDots(original_filename)
    IN  IF ~exists THEN original_filename \o ".bak"
        ELSE IF Len(parts) > 1
        THEN JoinDots(SubSeq(parts, 1, Len(parts) - 1))
             \o "." \o date_str \o "_" \o random_letters \o "." \o parts[Len(parts)] \o ".bak"
        ELSE original_filename \o "." \o date_str \o "_" \o random_letters \o ".bak"

\* The base names of the resume file, the days (%d%m%y) the pipeline runs on,
\* the values of uuid4().hex[:5], the HTTP status codes of the job listing and
\* the return codes of the conversion subprocess.
Resumes == {"resume.md", "resume", "my.resume.md"}
Dates == {"051126", "061126"}
RandomLetters == {"3f9a1", "c04be"}
StatusCodes == {200, 404, 500}
ReturnCodes == {0, 1, 2}

\* A step of the pipeline as executed: raised is whether a call of the step
\* raised an exception; code is the HTTP status code of the fetch or the
\* return code of the conversion subprocess, 0 for a step without one.
Step(name, raised, code) == [step |-> name, raised |-> raised, code |-> code]

InitPipeline ==
    /\ RIdle
    /\ FIdle
    /\ resume \in Resumes
    /\ invocation = 1
    /\ ppc = "prepare"
    /\ backups = {}
    /\ backup_path = ""
    /\ output_md = "absent"
    /\ exit_code = -1
    /\ steps = <<>>

\* Lines 203-242: the arguments are parsed and the output folders made;
\* os.makedirs may raise, which ends the process with exit status 1.
Prepare ==
    /\ UNCHANGED <<rvars, fvars>>
    /\ ppc = "prepare"
    /\ \E ok \in BOOLEAN :
         IF ok THEN ppc' = "backup_name" /\ exit_code' = exit_code
         ELSE ppc' = "exited" /\ exit_code' = 1
    /\ UNCHANGED <<resume, invocation, backups, backup_path, output_md, steps>>

\* Lines 244-258: the path of the backup copy.
BackupNaming ==
    /\ UNCHANGED <<rvars, fvars>>
    /\ ppc = "backup_name"
    /\ \E date_str \in Dates, random_letters \in RandomLetters :
         backup_path' = PathJoin(backup_folder,
                            BackupFilename(resume,
                                PathJoin(backup_folder, resume \o ".bak") \in backups,
                                date_str, random_letters))
    /\ ppc' = "backup_copy"
    /\ UNCHANGED <<resume, invocation, backups, output_md, exit_code, steps>>

\* Lines 260-266: shutil.copy writes the backup, replacing a file at that path.
BackupCopy ==
    /\ UNCHANGED <<rvars, fvars>>
    /\ ppc = "backup_copy"
    /\ \E ok \in BOOLEAN :
         /\ steps' = Append(steps, Step("backup", ~ok, 0))
         /\ IF ok
            THEN /\ backups' = backups \cup {backup_path}
                 /\ ppc' = "read" /\ exit_code' = exit_code
            ELSE /\ backups' = backups
                 /\ ppc' = "exited" /\ exit_code' = 1
    /\ UNCHANGED <<resume, invocation, backup_path, output_md>>

\* Lines 268-274: the resume is read.
ReadResume ==
    /\ UNCHANGED <<rvars, fvars>>
    /\ ppc = "read"
    /\ \E ok \in BOOLEAN :
         /\ steps' = Append(steps, Step("read", ~ok, 0))
         /\ IF ok THEN ppc' = "fetch" /\ exit_code' = exit_code
            ELSE ppc' = "exited" /\ exit_code' = 1
    /\ UNCHANGED <<resume, invocation, backups, backup_path, output_md>>

\* A variant that takes only a server error for a failure.
FetchFailsOnServerError(status_code) == status_code >= 500

\* Line 66: the status codes fetch_job_details raises on.
FetchFails(status_code) == status_code # 200

\* Lines 276-283 and fetch_job_details: requests.get raises (no status code),
\* or answers with a status code, and the page is then parsed, which may
\* raise too.
FetchJob ==
    /\ UNCHANGED <<rvars, fvars>>
    /\ ppc = "fetch"
    /\ \E r \in {Step("fetch", TRUE, c) : c \in {0, 200}}
                \cup {Step("fetch", FALSE, c) : c \in StatusCodes} :
         /\ steps' = Append(steps, r)
         /\ IF r.raised \/ FetchFails(r.code)
            THEN ppc' = "exited" /\ exit_code' = 1
            ELSE ppc' = "tailor" /\ exit_code' = exit_code
    /\ UNCHANGED <<resume, invocation, backups, backup_path, output_md>>

\* Lines 292-295 and tailor_resume: the header or the prompt file cannot be
\* read, or the call of the model raises.
Tailor ==
    /\ UNCHANGED <<rvars, fvars>>
    /\ ppc = "tailor"
    /\ \E ok \in BOOLEAN :
         /\ steps' = Append(steps, Step("model", ~ok, 0))
         /\ IF ok THEN ppc' = "write" /\ exit_code' = exit_code
            ELSE ppc' = "exited" /\ exit_code' = 1
    /\ UNCHANGED <<resume, invocation, backups, backup_path, output_md>>

\* Lines 297-307: the tailored resume is written; open may raise (nothing
\* written) and so may write (a partial file).
WriteMarkdown ==
    /\ UNCHANGED <<rvars, fvars>>
    /\ ppc = "write"
    /\ \E outcome \in {"written", "partial", "absent"} :
         /\ steps' = Append(steps, Step("write", outcome # "written", 0))
         /\ output_md' = outcome
         /\ IF outcome = "written" THEN ppc' = "convert" /\ exit_code' = exit_code
            ELSE ppc' = "exited" /\ exit_code' = 1
    /\ UNCHANGED <<resume, invocation, backups, backup_path>>

\* Line 321, check=True: the return codes subprocess.run raises on.
ConvertFails(returncode) == returncode # 0

\* Lines 309-328: the conversion script is run if it exists; running it may
\* raise OSError (uncaught, exit status 1) or CalledProcessError.  When main
\* returns the exit status is 0.
Convert ==
    /\ UNCHANGED <<rvars, fvars>>
    /\ ppc = "convert"
    /\ \E script_exists \in BOOLEAN :
         IF ~script_exists
         THEN /\ steps' = steps
              /\ ppc' = "exited" /\ exit_code' = 1
         ELSE \E r \in {Step("render", TRUE, 0)}
                       \cup {Step("render", FALSE, c) : c \in ReturnCodes} :
                /\ steps' = Append(steps, r)
                /\ ppc' = "exited"
                /\ exit_code' = IF r.raised \/ ConvertFails(r.code) THEN 1 ELSE 0
    /\ UNCHANGED <<resume, invocation, backups, backup_path, output_md>>

\* The script is run again on the same resume; the backup folder stays.
NextRun ==
    /\ UNCHANGED <<rvars, fvars>>
    /\ ppc = "exited"
    /\ invocation < MaxRuns
    /\ invocation' = invocation + 1
    /\ ppc' = "prepare"
    /\ backup_path' = ""
    /\ output_md' = "absent"
    /\ exit_code' = -1
    /\ steps' = <<>>
    /\ UNCHANGED <<resume, backups>>

NextPipeline ==
    \/ Prepare
    \/ BackupNaming
    \/ BackupCopy
    \/ ReadResume
    \/ FetchJob
    \/ Tailor
    \/ WriteMarkdown
    \/ Convert
    \/ NextRun

SpecPipeline == InitPipeline /\ [][NextPipeline]_vars

\* ====================================================== the properties
\* The lines the main loop starts at: after the header block and its rules.
MainStart == FirstNonRule(lines, FirstRule(lines, 1))

IsBlank(line) == Strip(line) = ""

IsHeadingLine(line) == ~IsRule(line) /\ HeadingLevel(Strip(line)) > 0

InMainLoop == pc \in {"main", "done", "failed"}

\* The nodes of d that job-block flush f made, in document order.
JobNodes(d, f) == SelectSeq(d, LAMBDA n : n.kind = "paragraph" /\ n.blk = f)

\* C1: a heading of the main loop never stands in the document before a node
\* of a job-block line that came before the heading in the source: the
\* pending job block is written out before the heading's own node.
C1_JobBlockBeforeHeading ==
    \A p \in 1..Len(doc), q \in 1..Len(doc) :
        ( /\ doc[p].kind = "paragraph" /\ doc[p].level > 0 /\ ~doc[p].center
          /\ doc[q].kind = "paragraph" /\ doc[q].blk > 0
          /\ doc[q].src < doc[p].src )
        => q < p

\* C2: every flush of a job block adds one paragraph or list-item node for
\* each non-blank accumulated line, in source order, and keep_with_next is
\* set on each of them but the last (so a block of one non-blank line gives
\* one node without it).
C2_JobBlockKeepTogether ==
    \A f \in 1..Len(jflushed) :
        LET nb == SelectSeq(jflushed[f], LAMBDA k : ~IsBlank(lines[k]))
            ns == JobNodes(doc, f)
        IN  /\ Len(ns) = Len(nb)
            /\ \A k \in 1..Len(ns) :
                 /\ ns[k].src = nb[k]
                 /\ ns[k].level = 0
                 /\ ns[k].style = (IF StartsWith(Strip(lines[nb[k]]), "- ")
                                   THEN "List Bullet" ELSE "Normal")
                 /\ ns[k].keep = (k < Len(ns))

\* A finished conversion in which a rule flushed a job block of a paragraph
\* and a list item, the first kept with the second.
C2_Witness ==
    /\ pc = "done"
    /\ \E f \in 1..Len(jflushed) :
         LET ns == JobNodes(doc, f)
         IN  /\ Len(ns) = 2
             /\ ns[1].keep /\ ~ns[2].keep
             /\ ns[2].style = "List Bullet"
             /\ ns[2].src < Len(lines) /\ IsRule(lines[ns[2].src + 1])

\* The lower-case letter of each upper-case letter.
LowerOf == [c \in {Char(Uppers, k) : k \in 1..26} |->
               Char(Lowers, CHOOSE k \in 1..26 : Char(Uppers, k) = c)]

RECURSIVE Lower(_)
Lower(s) ==
    IF s = "" THEN ""
    ELSE (IF Char(s, 1) \in DOMAIN LowerOf THEN LowerOf[Char(s, 1)] ELSE Char(s, 1))
         \o Lower(Tail_(s, 2))

\* The last heading line the main loop has passed, 0 for none.
LastHeading ==
    LET hs == {k \in MainStart..(i - 1) : IsHeadingLine(lines[k])}
    IN  IF hs = {} THEN 0 ELSE CHOOSE k \in hs : \A j \in hs : j <= k

\* C3: in the main loop the employment state is set exactly when the last
\* heading passed has level 2 and its text is "EMPLOYMENT HISTORY" in any
\* letter case; it is unset before the first heading and after any other
\* heading.
C3_EmploymentState ==
    InMainLoop =>
        LET h == LastHeading
            line == Strip(lines[h])
        IN  in_employment <=>
              ( /\ h # 0
                /\ HeadingLevel(line) = 2
                /\ Lower(Strip(Tail_(line, 3))) = "employment history" )

\* The state was set by a level-2 heading and a level-1 heading of the same
\* text has unset it.
C3_Witness ==
    /\ pc = "main"
    /\ ~in_employment
    /\ LastHeading > MainStart
    /\ HeadingLevel(Strip(lines[LastHeading])) = 1
    /\ Upper(Strip(Tail_(Strip(lines[LastHeading]), 2))) = "EMPLOYMENT HISTORY"
    /\ \E k \in MainStart..(LastHeading - 1) : lines[k] = "## Employment History"

\* The lines the main loop has dealt with: a line that raised is dealt with.
Processed == IF pc = "failed" THEN i ELSE i - 1

\* The maximal runs of table rows among the lines start..upto of the main
\* loop, each as <<first, last>>.
TableRuns(start, upto) ==
    LET rows == {k \in start..upto : IsTableRow(lines[k])}
    IN  {r \in rows \X rows :
            /\ r[1] <= r[2]
            /\ \A k \in r[1]..r[2] : k \in rows
            /\ r[1] = start \/ (r[1] - 1) \notin rows
            /\ r[2] = Len(lines) \/ ~IsTableRow(lines[r[2] + 1])}

TablesOf(d, first) == SelectSeq(d, LAMBDA n : n.kind = "table" /\ n.src = first)

\* C4: a run of n >= 2 table rows gives one table: as many columns as the
\* first line has cells, the header row made of the first line, the second
\* line left out, and n - 2 data rows holding the cells of lines 3..n in
\* order.
C4_TableFromRun ==
    \A f \in 1..Len(tflushed) :
        LET first == tflushed[f].first
            n     == tflushed[f].last - first + 1
            ts    == TablesOf(doc, first)
            hc    == Cells(lines[first])
        IN  n >= 2 =>
            /\ Len(ts) = 1
            /\ ts[1].cols = Len(hc)
            /\ Len(ts[1].rows) = n - 1
            /\ ts[1].rows[1] = [j \in 1..Len(hc) |->
                                  [runs |-> insert_formatted_text(hc[j]), fill |-> "C6EFCE"]]
            /\ \A d \in 1..(n - 2) :
                 LET c == Cells(lines[first + d + 1])
                 IN  \A j \in 1..Len(c) :
                        j <= Len(hc) =>
                        ts[1].rows[d + 1][j] =
                            [runs |-> insert_formatted_text(c[j]), fill |-> "FFFACD"]

\* C5: every maximal run of table rows is flushed once, at its last line, by
\* the lookahead branch or, at the end of the input, by the end-of-input
\* branch, and either way a run of two or more lines gives one table; the
\* table accumulator is empty whenever a line that is no table row is
\* classified and when the loop ends, so the flush after the loop finds
\* nothing to flush.
C5_TableFlushedOnce ==
    InMainLoop =>
        /\ LET runs_ == TableRuns(MainStart, Processed)
           IN  /\ {<<tflushed[f].first, tflushed[f].last>> : f \in 1..Len(tflushed)} = runs_
               /\ Len(tflushed) = Cardinality(runs_)
        /\ \A f \in 1..Len(tflushed) :
              /\ tflushed[f].via = (IF tflushed[f].last = Len(lines) THEN "eof" ELSE "lookahead")
              /\ \A g \in 1..(f - 1) : tflushed[g].last < tflushed[f].first
              /\ Len(TablesOf(doc, tflushed[f].first))
                    = (IF tflushed[f].last > tflushed[f].first THEN 1 ELSE 0)
        /\ (pc = "main" /\ (i > Len(lines) \/ ~IsTableRow(lines[i]))) => table_lines = <<>>
        /\ pc = "done" => table_lines = <<>>

\* A finished conversion with a table flushed by the lookahead branch and a
\* run flushed by the end-of-input branch.
C5_Witness ==
    /\ pc = "done"
    /\ \E f \in 1..Len(tflushed), g \in 1..Len(tflushed) :
         /\ tflushed[f].via = "lookahead" /\ tflushed[f].last > tflushed[f].first
         /\ tflushed[g].via = "eof"

\* C6: a blank line adds no node: no node of the document was made from a
\* line that is empty after stripping.
C6_BlankLineSkipped ==
    \A k \in 1..Len(doc) : ~IsBlank(lines[doc[k].src])

\* Line k has a node, a table row or a rule of its own in the document.
Contributes(k) ==
    \E p \in 1..Len(doc) :
        \/ doc[p].kind # "table" /\ doc[p].src = k
        \/ /\ doc[p].kind = "table"
           /\ \/ k = doc[p].src
              \/ k >= doc[p].src + 2 /\ k <= doc[p].src + Len(doc[p].rows) - 1

\* C7: when the conversion has finished, every non-blank line other than the
\* second line of a table run has a node, a table row or a rule in the
\* document.
C7_EveryLineHandled ==
    pc = "done" =>
        \A k \in 1..Len(lines) :
            ( /\ ~IsBlank(lines[k])
              /\ ~\E f \in 1..Len(tflushed) : k = tflushed[f].first + 1 )
            => Contributes(k)

\* C8: the conversion never stops with an error on malformed markup.
C8_NeverFails == pc # "failed"

Indices(a, b) == [k \in 1..(b - a + 1) |-> a + k - 1]

\* C9: each non-blank line before the first rule gives one centred node, a
\* heading if it matches the heading pattern and a plain paragraph otherwise
\* (no list item, table or job-block node); then the rule and the rules right
\* after it give one rule node each, and the main loop starts after them with
\* the employment state unset and nothing accumulated.  With no rule in the
\* input every line belongs to the header block.
C9_HeaderBlock ==
    (pc = "header_rules" \/ InMainLoop) =>
        LET r  == FirstRule(lines, 1)
            nb == SelectSeq(Indices(1, r - 1), LAMBDA k : ~IsBlank(lines[k]))
            ms == FirstNonRule(lines, r)
            nr == IF pc = "header_rules" THEN 0 ELSE ms - r
        IN  /\ Len(doc) >= Len(nb) + nr
            /\ \A k \in 1..Len(nb) :
                 LET level == HeadingLevel(Strip(lines[nb[k]]))
                 IN  /\ doc[k].kind = "paragraph"
                     /\ doc[k].src = nb[k]
                     /\ doc[k].center
                     /\ ~doc[k].keep
                     /\ doc[k].blk = 0
                     /\ doc[k].level = level
                     /\ doc[k].style = (CASE level = 1 -> "Heading1"
                                          [] level = 2 -> "Heading2"
                                          [] level = 3 -> "Heading3"
                                          [] OTHER -> "Normal")
            /\ \A k \in 1..nr : doc[Len(nb) + k] = [kind |-> "rule", src |-> r + k - 1]
            /\ \A k \in (Len(nb) + nr + 1)..Len(doc) :
                 /\ doc[k].src >= ms
                 /\ doc[k].kind = "paragraph" => ~doc[k].center
            /\ pc = "header_rules" => (i = r /\ ~in_employment /\ Len(doc) = Len(nb))
            /\ (pc = "main" /\ i = ms) =>
                 /\ ~in_employment
                 /\ current_job_block = <<>> /\ table_lines = <<>>
                 /\ Len(doc) = Len(nb) + nr
            /\ r = Len(lines) + 1 => Len(doc) = Len(nb)

\* The main loop is about to start after a header block of a heading with
\* the employment text and a line with a bullet marker, ended by a rule.
C9_Witness ==
    /\ pc = "main" /\ i = MainStart
    /\ Len(lines) >= 3
    /\ lines[1] = "## Employment History"
    /\ lines[2] = "- x"
    /\ IsRule(lines[3])
    /\ Len(doc) = 3

\* The text of the line a run stands for.
Source(run) ==
    CASE run.kind = "bold"   -> "**" \o run.text \o "**"
      [] run.kind = "italic" -> "*" \o run.text \o "*"
      [] run.kind = "link"   -> "[" \o run.text \o "](" \o run.url \o ")"
      [] OTHER               -> run.text

RECURSIVE Sources(_)
Sources(rs) == IF rs = <<>> THEN "" ELSE Source(Head(rs)) \o Sources(Tail(rs))

\* C10: the runs cover the line from its start to the place the formatter
\* has reached, and the whole line when it is done, without gap or overlap:
\* put back between its delimiters, each bold, italic or link run is a piece
\* of the line, and the plain runs are the pieces between them.  No run has
\* an empty text, no two plain runs are neighbours, a plain run holds no
\* match of the pattern, and an empty line gives no run.
C10_SpansCoverLine ==
    /\ Sources(runs) = SubSeq(markdown_text, 1,
                              IF fpc = "done" THEN Len(markdown_text) ELSE pos - 1)
    /\ \A k \in 1..Len(runs) :
          /\ runs[k].kind \in {"plain", "bold", "italic", "link"}
          /\ runs[k].text # ""
          /\ runs[k].kind = "link" <=> runs[k].url # ""
          /\ runs[k].kind = "plain" => ~NextMatch(runs[k].text, 1).found
          /\ (k > 1 /\ runs[k].kind = "plain") => runs[k - 1].kind # "plain"
    /\ (fpc = "done" /\ markdown_text = "") => runs = <<>>

\* A formatted line of a bold run and the plain text after it.
C10_Witness ==
    /\ fpc = "done"
    /\ Len(runs) = 2
    /\ runs[1].kind = "bold"
    /\ runs[2].kind = "plain"

\* The part of the line each run stands for, delimiters included: the kind of
\* the run and the first and last position (1-based) of its source text.
RECURSIVE Extents(_, _)
Extents(rs, from) ==
    IF rs = <<>> THEN <<>>
    ELSE <<[kind |-> Head(rs).kind, first |-> from,
            last |-> from + Len(Source(Head(rs))) - 1]>>
         \o Extents(Tail(rs), from + Len(Source(Head(rs))))

\* Position p of the line lies in the source text of a plain run.
InPlainRun(p) ==
    \E k \in 1..Len(runs) :
        LET e == Extents(runs, 1)[k]
        IN  e.kind = "plain" /\ e.first <= p /\ p <= e.last

StarPairAt(s, p) == p + 1 <= Len(s) /\ SubSeq(s, p, p + 1) = "**"

\* C11: a delimiter without a closing partner of its kind is left as plain
\* text: when the line is formatted, a "*" that is the only asterisk of the
\* line, and both asterisks of a "**" that is the only "**" of the line, lie
\* in plain runs, not in the delimiters or the content of a bold or italic
\* run.
C11_UnmatchedDelimiterPlain ==
    fpc = "done" =>
        \A p \in 1..Len(markdown_text) :
            /\ ( /\ Char(markdown_text, p) = "*"
                 /\ \A q \in 1..Len(markdown_text) :
                       q # p => Char(markdown_text, q) # "*" )
               => InPlainRun(p)
            /\ ( /\ StarPairAt(markdown_text, p)
                 /\ \A q \in 1..Len(markdown_text) :
                       q # p => ~StarPairAt(markdown_text, q) )
               => (InPlainRun(p) /\ InPlainRun(p + 1))

\* The steps of the pipeline in the order of main.
StepOrder == <<"backup", "read", "fetch", "model", "write", "render">>

\* The step went well: nothing raised, the job listing came with status 200,
\* the conversion subprocess returned 0.
StepGood(e) ==
    /\ ~e.raised
    /\ e.step = "fetch" => e.code = 200
    /\ e.step = "render" => e.code = 0

\* C12: the steps of an invocation run in the order backup copy, read resume,
\* fetch job listing, model call, write tailored markdown, invoke renderer;
\* a step that fails (an exception, a status code other than 200, a return
\* code other than 0) is the last one executed and the process has exited
\* with a non-zero status; the status is 0 only after all six steps went
\* well; the tailored markdown is written only after a good fetch and model
\* call, and the renderer is invoked only when it is written in full.
C12_PipelineOrderFailFast ==
    /\ Len(steps) <= Len(StepOrder)
    /\ \A k \in 1..Len(steps) : steps[k].step = StepOrder[k]
    /\ \A k \in 1..(Len(steps) - 1) : StepGood(steps[k])
    /\ (steps # <<>> /\ ~StepGood(steps[Len(steps)])) => (ppc = "exited" /\ exit_code > 0)
    /\ ppc = "exited" <=> exit_code # -1
    /\ exit_code = 0 => (Len(steps) = Len(StepOrder) /\ StepGood(steps[Len(steps)]))
    /\ output_md # "absent" => Len(steps) >= 5
    /\ Len(steps) = Len(StepOrder) => output_md = "written"

\* The job listing came with status 404: the process has exited with status 1
\* after the fetch, nothing written.
C12_Witness ==
    /\ ppc = "exited"
    /\ exit_code = 1
    /\ Len(steps) = 3
    /\ steps[3] = Step("fetch", FALSE, 404)
    /\ output_md = "absent"

\* C13: the backup copy is never written to a path that exists: when the
\* copy is about to be made its path is not in the backup folder.
C13_BackupPathFresh ==
    ppc = "backup_copy" => backup_path \notin backups

\* C14: a table never stands in the document before a node of a job-block
\* line that came before the table run in the source: the job-block lines
\* accumulated before a table run give their nodes before the table.
C14_JobBlockBeforeTable ==
    \A p \in 1..Len(doc), q \in 1..Len(doc) :
        ( /\ doc[p].kind = "table"
          /\ doc[q].kind = "paragraph" /\ doc[q].blk > 0
          /\ doc[q].src < doc[p].src )
        => q < p

\* The nodes the pending job block gives when it is flushed as flush blk:
\* one for each non-blank line, all but the last kept with the next.
PendingNodes(block, blk) ==
    LET nb == SelectSeq(block, LAMBDA k : ~IsBlank(lines[k]))
    IN  [k \in 1..Len(nb) |->
            [kind |-> "paragraph",
             style |-> IF StartsWith(Strip(lines[nb[k]]), "- ") THEN "List Bullet" ELSE "Normal",
             level |-> 0, center |-> FALSE,
             runs |-> insert_formatted_text(
                          IF StartsWith(Strip(lines[nb[k]]), "- ")
                          THEN Strip(Tail_(Strip(lines[nb[k]]), 3)) ELSE Strip(lines[nb[k]])),
             keep |-> k < Len(nb), src |-> nb[k], blk |-> blk]]

\* C15: the step that processes a rule line of the main loop appends the
\* nodes of the pending job block (if any) and after them one rule node and
\* nothing else, leaves the employment state and the table accumulator as
\* they were and the job-block accumulator empty; so no job block, flushed or
\* pending, holds lines from both sides of a rule, and the lines after the
\* rule are grouped on their own.
C15_RuleLineFrame ==
    [][ (pc = "main" /\ i <= Len(lines) /\ IsRule(lines[i]))
        => /\ i' = i + 1
           /\ pc' = "main"
           /\ in_employment' = in_employment
           /\ table_lines' = table_lines
           /\ current_job_block' = <<>>
           /\ doc' = doc \o PendingNodes(current_job_block, Len(jflushed) + 1)
                         \o <<[kind |-> "rule", src |-> i]>>
           /\ jflushed' = (IF current_job_block # <<>>
                           THEN Append(jflushed, current_job_block) ELSE jflushed)
           /\ \A f \in 1..Len(jflushed') :
                \A k \in jflushed'[f][1]..jflushed'[f][Len(jflushed'[f])] : ~IsRule(lines[k])
      ]_vars

\* A finished conversion in which a rule in the employment section flushed a
\* job block and the lines after the rule made a second job block.
C15_Witness ==
    /\ pc = "done"
    /\ in_employment
    /\ Len(jflushed) = 2
    /\ \E k \in 1..Len(lines) :
         /\ IsRule(lines[k])
         /\ jflushed[1][Len(jflushed[1])] < k
         /\ k < jflushed[2][1]
    /\ \E p \in 2..(Len(doc) - 1) :
         /\ doc[p].kind = "rule"
         /\ doc[p - 1].kind = "paragraph" /\ doc[p - 1].blk = 1
         /\ doc[p + 1].kind = "paragraph" /\ doc[p + 1].blk = 2

====
